---------------------------- MODULE Spec2Model ----------------------------
(***************************************************************************)
(* Model of app.py: a Streamlit script that loads an uploaded picture,     *)
(* bounds its size, thresholds it in HSV, composites the mask against the  *)
(* picture and reports pixel statistics.                                   *)
(*                                                                         *)
(* Streamlit runs main_app from top to bottom once per interaction (an     *)
(* upload, a removal of the upload, a slider change).  One action of the   *)
(* model is one such run.                                                  *)
(***************************************************************************)
EXTENDS Integers, Sequences, FiniteSets

VARIABLES
    uploaded_file,   \* value of st.file_uploader: None or the uploaded file
    session_state,   \* widget state of the six sliders
    trigger,         \* the interaction that caused the latest run
    calls,           \* functions executed by the latest run, in order
    st_message,      \* st.info / st.error / st.success shown by the latest run
    img_bgr,         \* main_app's img_bgr after the run (None when absent)
    mask,            \* main_app's mask
    result_bgr,      \* main_app's result_bgr
    pixel_count,     \* main_app's pixel_count (a fraction: Python float)
    total_pixels,    \* main_app's total_pixels
    percentage,      \* main_app's percentage (a fraction: Python float)
    img_rgb,         \* main_app's img_rgb
    result_rgb,      \* main_app's result_rgb
    memo             \* history variable: inputs and outputs of one earlier run

vars == <<uploaded_file, session_state, trigger, calls, st_message, img_bgr,
          mask, result_bgr, pixel_count, total_pixels, percentage, img_rgb,
          result_rgb, memo>>

(***************************************************************************)
(* Bounds of the model.                                                    *)
(***************************************************************************)
\* largest number of pixels of an image whose content is tracked
MaxPixels == 2
\* largest number of pixels of an image in the two-run specification
IdemPixels == 1
\* image sides 1..DimLow are drawn by the loading specification
DimLow == 3
\* image sides within DimNear of the resize limit are drawn as well
DimNear == 10

(***************************************************************************)
(* Python values.                                                          *)
(***************************************************************************)
None == [kind |-> "None"]

\* a Python float that is the quotient of two integers, kept exact
Frac(n, d) == [num |-> n, den |-> d]

FracEq(a, b) == a.num * b.den = b.num * a.den

FracLeq(a, b) == a.num * b.den <= b.num * a.den

Max2(a, b) == IF a >= b THEN a ELSE b

Min2(a, b) == IF a <= b THEN a ELSE b

Max3(a, b, c) == Max2(a, Max2(b, c))

Min3(a, b, c) == Min2(a, Min2(b, c))

(***************************************************************************)
(* IEEE-754 double arithmetic on positive values.  A 53-bit mantissa and   *)
(* the products of mantissas do not fit a machine integer of the checker,  *)
(* so a natural number is a little-endian sequence of 15-bit limbs.  A     *)
(* double is [mant, sh]: the number mant / 2^sh.                           *)
(***************************************************************************)
Pow2(k) ==
    <<1, 2, 4, 8, 16, 32, 64, 128, 256, 512, 1024, 2048, 4096, 8192, 16384,
      32768>>[k + 1]

SetMax(S) == CHOOSE x \in S : \A y \in S : y <= x

\* bit j (1 = least significant) of the number the limbs x stand for
BitOf(x, j) ==
    IF (j - 1) \div 15 + 1 > Len(x) THEN 0
    ELSE (x[(j - 1) \div 15 + 1] \div Pow2((j - 1) % 15)) % 2

BitLen(x) == SetMax({0} \cup {j \in 1..(15 * Len(x)) : BitOf(x, j) = 1})

RECURSIVE BitsVal(_)
BitsVal(b) == IF b = <<>> THEN 0 ELSE Head(b) + 2 * BitsVal(Tail(b))

\* the number floor(x / 2^d) as limbs, n limbs long
ShiftRight(x, d, n) ==
    [i \in 1..n |->
        BitsVal([j \in 1..15 |-> BitOf(x, d + 15 * (i - 1) + j)])]

RECURSIVE MulCarry(_, _, _)
MulCarry(x, c, carry) ==
    IF x = <<>> THEN <<carry % 32768, carry \div 32768>>
    ELSE LET t == Head(x) * c + carry
         IN  <<t % 32768>> \o MulCarry(Tail(x), c, t \div 32768)

\* long division of the limbs x[1..i] (most significant first) by m; q holds
\* the quotient limbs already produced, rem is the running remainder
RECURSIVE DivStep(_, _, _, _, _)
DivStep(x, i, m, rem, q) ==
    IF i = 0 THEN [q |-> q, r |-> rem]
    ELSE LET t == 32768 * rem + x[i]
         IN  DivStep(x, i - 1, m, t % m, <<t \div m>> \o q)

RECURSIVE Inc(_)
Inc(x) ==
    IF x = <<>> THEN <<1>>
    ELSE IF Head(x) < 32767 THEN <<Head(x) + 1>> \o Tail(x)
    ELSE <<0>> \o Inc(Tail(x))

\* x rounded to 53 significant bits, ties to even: [mant, drop] stands for
\* mant * 2^drop; sticky: a non-zero part below x's last bit was dropped before
RoundNearestEven(x, sticky) ==
    IF BitLen(x) <= 53 THEN [mant |-> x, drop |-> 0]
    ELSE LET d    == BitLen(x) - 53
             kept == ShiftRight(x, d, 4)
             half == BitOf(x, d) = 1
             low  == sticky \/ \E j \in 1..(d - 1) : BitOf(x, j) = 1
             up   == half /\ (low \/ BitOf(kept, 1) = 1)
         IN  [mant |-> IF up THEN Inc(kept) ELSE kept, drop |-> d]

\* a / m in double precision, for integers 1 <= a < 32768 and 1 <= m < 65536
FloatDiv(a, m) ==
    LET qr == DivStep(<<0, 0, 0, 0, 0, a>>, 6, m, 0, <<>>)
        rn == RoundNearestEven(qr.q, qr.r # 0)
    IN  [mant |-> rn.mant, sh |-> 75 - rn.drop]

\* c * x in double precision, for an integer 0 <= c < 65536 (exact as a double)
FloatMulInt(c, x) ==
    LET rn == RoundNearestEven(MulCarry(x.mant, c, 0), FALSE)
    IN  [mant |-> rn.mant, sh |-> x.sh - rn.drop]

\* int(x): truncation toward zero, for 0 <= x < 2^30
FloatToInt(x) == BitsVal([j \in 1..30 |-> BitOf(x.mant, x.sh + j)])

(***************************************************************************)
(* OpenCV and NumPy calls.  An image (ndarray) is [kind, rows, cols, px]:  *)
(* px is the row-major sequence of its pixels, a <<b, g, r>> triple each   *)
(* (one number each for a single-channel mask).  The content of an image   *)
(* that went through cv2.resize is not tracked: its px is <<>>.            *)
(***************************************************************************)
\* the pixels are stored: the sequence is built once, when the array is made
ndarray(rows, cols, px) ==
    [kind |-> "ndarray", rows |-> rows, cols |-> cols, px |-> px \o <<>>]

\* cvRound of the quotient n / d: nearest integer, ties to even
cvRound(n, d) ==
    LET q == n \div d
        r == n % d
    IN  IF 2 * r > d \/ (2 * r = d /\ q % 2 = 1) THEN q + 1 ELSE q

\* cv2.cvtColor(..., COLOR_BGR2HSV) on one 8-bit pixel: OpenCV's fixed-point
\* formula (hsv_shift = 12, hue range 180)
BGR2HSV(p) ==
    LET b    == p[1]
        g    == p[2]
        r    == p[3]
        v    == Max3(b, g, r)
        diff == v - Min3(b, g, r)
        sdiv == IF v = 0 THEN 0 ELSE cvRound(255 * 4096, v)
        hdiv == IF diff = 0 THEN 0 ELSE cvRound(180 * 4096, 6 * diff)
        s    == (diff * sdiv + 2048) \div 4096
        h0   == IF v = r THEN g - b
                ELSE IF v = g THEN b - r + 2 * diff
                ELSE r - g + 4 * diff
        h1   == (h0 * hdiv + 2048) \div 4096
    IN  <<IF h1 < 0 THEN h1 + 180 ELSE h1, s, v>>

cv2_cvtColor_BGR2HSV(src) ==
    ndarray(src.rows, src.cols, [i \in 1..Len(src.px) |-> BGR2HSV(src.px[i])])

cv2_cvtColor_BGR2RGB(src) ==
    ndarray(src.rows, src.cols,
            [i \in 1..Len(src.px) |-> <<src.px[i][3], src.px[i][2], src.px[i][1]>>])

\* a reading of inRange that reorders a bound pair given the wrong way round
cv2_inRange_swapping(src, lowerb, upperb) ==
    ndarray(src.rows, src.cols,
            [i \in 1..Len(src.px) |->
                IF \A c \in 1..3 :
                      /\ Min2(lowerb[c], upperb[c]) <= src.px[i][c]
                      /\ src.px[i][c] <= Max2(lowerb[c], upperb[c])
                THEN 255 ELSE 0])

\* a reading of inRange whose upper bounds are exclusive
cv2_inRange_exclusive(src, lowerb, upperb) ==
    ndarray(src.rows, src.cols,
            [i \in 1..Len(src.px) |->
                IF \A c \in 1..3 :
                      lowerb[c] <= src.px[i][c] /\ src.px[i][c] < upperb[c]
                THEN 255 ELSE 0])

\* cv2.inRange: 255 where every channel lies in [lowerb, upperb], else 0
cv2_inRange(src, lowerb, upperb) ==
    ndarray(src.rows, src.cols,
            [i \in 1..Len(src.px) |->
                IF \A c \in 1..3 :
                      lowerb[c] <= src.px[i][c] /\ src.px[i][c] <= upperb[c]
                THEN 255 ELSE 0])

RECURSIVE BitAnd(_, _)
BitAnd(a, b) ==
    IF a = 0 \/ b = 0 THEN 0
    ELSE (a % 2) * (b % 2) + 2 * BitAnd(a \div 2, b \div 2)

\* a reading of bitwise_and that copies src1 where the mask is 0
cv2_bitwise_and_nozero(src1, src2, msk) ==
    ndarray(src1.rows, src1.cols,
            [i \in 1..Len(src1.px) |->
                IF msk.px[i] # 0
                THEN [c \in 1..3 |-> BitAnd(src1.px[i][c], src2.px[i][c])]
                ELSE src1.px[i]])

\* cv2.bitwise_and(src1, src2, mask=msk) with no dst given: a new array,
\* zero where the mask is 0
cv2_bitwise_and(src1, src2, msk) ==
    ndarray(src1.rows, src1.cols,
            [i \in 1..Len(src1.px) |->
                IF msk.px[i] # 0
                THEN [c \in 1..3 |-> BitAnd(src1.px[i][c], src2.px[i][c])]
                ELSE <<0, 0, 0>>])

\* np.sum(m > 0): the number of elements of m greater than 0
np_sum_gt0(m) == Cardinality({i \in 1..Len(m.px) : m.px[i] > 0})

\* cv2.imdecode: raises on an empty buffer, returns None for bytes that are no
\* image, else the decoded image
cv2_imdecode(file_bytes) ==
    IF file_bytes.kind = "empty" THEN [raised |-> TRUE, value |-> None]
    ELSE IF file_bytes.kind = "corrupt" THEN [raised |-> FALSE, value |-> None]
    ELSE [raised |-> FALSE,
          value  |-> ndarray(file_bytes.rows, file_bytes.cols, file_bytes.px)]

\* cv2.resize(src, dsize), dsize = [width, height]: raises when dsize has a
\* side of 0 (and no fx, fy)
cv2_resize(src, dsize) ==
    IF dsize.width <= 0 \/ dsize.height <= 0
    THEN [raised |-> TRUE, value |-> None]
    ELSE [raised |-> FALSE,
          value  |-> ndarray(dsize.height, dsize.width, <<>>)]

(***************************************************************************)
(* load_color_image                                                        *)
(***************************************************************************)
ResizeBound == 800

\* a resize test that asks both sides to exceed the limit
needs_resize_both(rows, cols) == rows > ResizeBound /\ cols > ResizeBound

\* line 27: rows > 800 or cols > 800
needs_resize(rows, cols) == rows > ResizeBound \/ cols > ResizeBound

\* a new size rounded to the nearest integer instead of truncated
new_size_rounded(rows, cols) ==
    LET m == Max2(rows, cols)
    IN  [width  |-> (2 * cols * ResizeBound + m) \div (2 * m),
         height |-> (2 * rows * ResizeBound + m) \div (2 * m)]

\* lines 29-30: scale = 800 / max(rows, cols);
\*              new_size = (int(cols * scale), int(rows * scale)),
\*              a (width, height) pair
new_size(rows, cols) ==
    LET scale == FloatDiv(ResizeBound, Max2(rows, cols))
    IN  [width  |-> FloatToInt(FloatMulInt(cols, scale)),
         height |-> FloatToInt(FloatMulInt(rows, scale))]

\* a loader that hands back a blank picture when the bytes do not decode
load_color_image_partial(file) ==
    IF file = None THEN [value |-> None, st_error |-> "", calls |-> <<>>]
    ELSE [value    |-> ndarray(1, 1, <<<<0, 0, 0>>>>),
          st_error |-> "",
          calls    |-> <<"read", "imdecode">>]

\* a loader that keeps the image decoded by the run before and decodes only
\* a file it has not seen
load_color_image_cached(file) ==
    IF file = None THEN [value |-> None, st_error |-> "", calls |-> <<>>]
    ELSE IF file = uploaded_file /\ img_bgr # None
    THEN [value |-> img_bgr, st_error |-> "", calls |-> <<>>]
    ELSE LET dec == cv2_imdecode(file)
         IN  IF dec.raised
             THEN [value    |-> None,
                   st_error |-> "Terjadi kesalahan saat memproses citra",
                   calls    |-> <<"read", "imdecode">>]
             ELSE IF dec.value = None
             THEN [value    |-> None,
                   st_error |-> "Gagal memuat citra",
                   calls    |-> <<"read", "imdecode">>]
             ELSE [value |-> dec.value, st_error |-> "",
                   calls |-> <<"read", "imdecode">>]

\* returns [value, st_error, calls]: the image or None, the st.error text
\* shown, the calls made
load_color_image(file) ==
    IF file = None THEN [value |-> None, st_error |-> "", calls |-> <<>>]
    ELSE
    LET dec == cv2_imdecode(file)
    IN  IF dec.raised
        THEN [value    |-> None,
              st_error |-> "Terjadi kesalahan saat memproses citra",
              calls    |-> <<"read", "imdecode">>]
        ELSE IF dec.value = None
        THEN [value    |-> None,
              st_error |-> "Gagal memuat citra",
              calls    |-> <<"read", "imdecode">>]
        ELSE IF needs_resize(dec.value.rows, dec.value.cols)
        THEN LET rs == cv2_resize(dec.value,
                                  new_size(dec.value.rows, dec.value.cols))
             IN  IF rs.raised
                 THEN [value    |-> None,
                       st_error |-> "Terjadi kesalahan saat memproses citra",
                       calls    |-> <<"read", "imdecode", "resize">>]
                 ELSE [value    |-> rs.value,
                       st_error |-> "",
                       calls    |-> <<"read", "imdecode", "resize">>]
        ELSE [value |-> dec.value, st_error |-> "",
              calls |-> <<"read", "imdecode">>]

(***************************************************************************)
(* segment_hsv.  Python passes the image by reference, so the record       *)
(* returned also holds the caller's image as the call leaves it (img).     *)
(***************************************************************************)
\* a segmenter that writes the composite into a buffer kept from the run
\* before, which bitwise_and fills only where the mask is set
segment_hsv_reused_dst(src_bgr, h_min, h_max, s_min, s_max, v_min, v_max) ==
    LET img_hsv == cv2_cvtColor_BGR2HSV(src_bgr)
        m       == cv2_inRange(img_hsv, <<h_min, s_min, v_min>>,
                               <<h_max, s_max, v_max>>)
        fresh   == cv2_bitwise_and(src_bgr, src_bgr, m)
        old     == result_bgr
        res     == IF old # None /\ old.rows = src_bgr.rows
                      /\ old.cols = src_bgr.cols
                   THEN ndarray(src_bgr.rows, src_bgr.cols,
                                [i \in 1..Len(src_bgr.px) |->
                                    IF m.px[i] # 0 THEN fresh.px[i]
                                    ELSE old.px[i]])
                   ELSE fresh
    IN  [mask        |-> m,
         result      |-> res,
         pixel_count |-> Frac(np_sum_gt0(m), 255),
         img         |-> src_bgr]

\* lines 38-56
segment_hsv(src_bgr, h_min, h_max, s_min, s_max, v_min, v_max) ==
    LET img_hsv     == cv2_cvtColor_BGR2HSV(src_bgr)
        lower_bound == <<h_min, s_min, v_min>>
        upper_bound == <<h_max, s_max, v_max>>
        m           == cv2_inRange(img_hsv, lower_bound, upper_bound)
        res         == cv2_bitwise_and(src_bgr, src_bgr, m)
    IN  [mask        |-> m,
         result      |-> res,
         \* np.sum(mask > 0) / 255: the count of selected pixels, over 255
         pixel_count |-> Frac(np_sum_gt0(m), 255),
         img         |-> src_bgr]

(***************************************************************************)
(* The sliders.                                                            *)
(***************************************************************************)
SliderKeys == {"h_min", "h_max", "s_min", "s_max", "v_min", "v_max"}

\* lines 107-120: the sliders' default values
SliderDefaults ==
    [h_min |-> 30, h_max |-> 85, s_min |-> 50, s_max |-> 255,
     v_min |-> 50, v_max |-> 255]

(***************************************************************************)
(* The inputs the model draws.                                             *)
(***************************************************************************)
\* BGR colours: under the default range the first is selected, the second
\* fails on hue, the third on saturation, the fourth on value
Palette == {<<43, 200, 43>>, <<43, 95, 200>>, <<192, 200, 192>>, <<2, 10, 2>>}

SliderValues ==
    [h_min |-> {10, 30, 60}, h_max |-> {10, 85}, s_min |-> {10, 50},
     s_max |-> {200, 255}, v_min |-> {10, 50}, v_max |-> {200, 255}]

Shapes(n) == {sh \in (1..n) \X (1..n) : sh[1] * sh[2] <= n}

\* uploads whose bytes are no image: an empty file, a corrupt one
BadFiles == {[kind |-> "empty"], [kind |-> "corrupt"]}

\* uploads that decode to an image of at most n pixels
ImageFiles(n) ==
    UNION {{[kind |-> "image", rows |-> sh[1], cols |-> sh[2], px |-> p] :
               p \in [1..(sh[1] * sh[2]) -> Palette]} : sh \in Shapes(n)}

Files == BadFiles \cup ImageFiles(MaxPixels)

IdemFiles == BadFiles \cup ImageFiles(IdemPixels)

IdemKeys == {"h_min"}

\* sides of the images drawn for load_color_image alone: small ones, the ones
\* around the limit, and some whose scaled side is a whole number
Dims ==
    (1..DimLow) \cup ((ResizeBound - DimNear)..(ResizeBound + DimNear))
    \cup {537, 895, 1078, 1600, 1601, 2400}

LoadFiles ==
    BadFiles \cup
    {[kind |-> "image", rows |-> r, cols |-> c, px |-> <<>>] :
        r \in Dims, c \in Dims}

(***************************************************************************)
(* main_app: one run of the script, lines 60-179, on the uploader's value  *)
(* file and the sliders' values sl; why names the interaction that caused  *)
(* the run.  A slider that a run does not render loses its widget state    *)
(* and shows its default again.                                            *)
(***************************************************************************)
\* the run ends at line 85 or line 90: the page holds a message and no more
Aborted(message) ==
    /\ st_message' = message
    /\ session_state' = SliderDefaults
    /\ img_bgr' = None
    /\ mask' = None
    /\ result_bgr' = None
    /\ pixel_count' = None
    /\ total_pixels' = None
    /\ percentage' = None
    /\ img_rgb' = None
    /\ result_rgb' = None

main_app(file, sl, why) ==
    /\ uploaded_file' = file
    /\ trigger' = why
    /\ IF file = None
       THEN \* lines 83-85
            /\ calls' = <<>>
            /\ Aborted("info")
       ELSE \E loaded \in {load_color_image(file)} :
            IF loaded.value = None
            THEN \* lines 89-90
                 /\ calls' = loaded.calls
                 /\ Aborted(loaded.st_error)
            ELSE \E seg \in {segment_hsv(loaded.value, sl.h_min, sl.h_max,
                                         sl.s_min, sl.s_max, sl.v_min,
                                         sl.v_max)} :
                 \* line 154: total_pixels = shape[0] * shape[1]
                 \E total \in {seg.img.rows * seg.img.cols} :
                 /\ calls' = loaded.calls \o
                             <<"segment_hsv", "cvtColor", "cvtColor", "metrics">>
                 /\ st_message' = "success"
                 /\ session_state' = sl
                 /\ img_bgr' = seg.img
                 /\ mask' = seg.mask
                 /\ result_bgr' = seg.result
                 /\ pixel_count' = seg.pixel_count
                 /\ total_pixels' = total
                 \* line 155: percentage = (pixel_count / total_pixels) * 100
                 /\ percentage' = Frac(seg.pixel_count.num * 100,
                                       seg.pixel_count.den * total)
                 /\ img_rgb' = cv2_cvtColor_BGR2RGB(seg.img)
                 /\ result_rgb' = cv2_cvtColor_BGR2RGB(seg.result)

(***************************************************************************)
(* Actions: one interaction and the run of the script it causes.           *)
(***************************************************************************)
\* history: one more run since the remembered one (counted up to 2)
Tick == memo' = IF memo = None THEN None
                ELSE [memo EXCEPT !.runs = Min2(@ + 1, 2)]

\* the sliders are on the page only after a run that reached line 107
SlidersShown == st_message = "success"

Upload(S) ==
    \E f \in S :
        /\ main_app(f, session_state, "upload")
        /\ Tick

RemoveFile ==
    /\ uploaded_file # None
    /\ main_app(None, session_state, "remove")
    /\ Tick

SliderChange(K) ==
    \E k \in K : \E v \in SliderValues[k] :
        /\ SlidersShown
        /\ v # session_state[k]
        /\ main_app(uploaded_file, [session_state EXCEPT ![k] = v], "slider")
        /\ Tick

\* history: remember the inputs and outputs of the run just shown
Capture ==
    /\ st_message = "success"
    /\ memo' = [uploaded_file |-> uploaded_file, session_state |-> session_state,
                mask |-> mask, result_bgr |-> result_bgr,
                pixel_count |-> pixel_count, runs |-> 0]
    /\ UNCHANGED <<uploaded_file, session_state, trigger, calls, st_message,
                   img_bgr, mask, result_bgr, pixel_count, total_pixels,
                   percentage, img_rgb, result_rgb>>

\* load_color_image alone (main_app up to line 90) on an upload
LoadFile ==
    \E f \in LoadFiles : \E loaded \in {load_color_image(f)} :
        /\ uploaded_file = None
        /\ uploaded_file' = f
        /\ trigger' = "load"
        /\ calls' = loaded.calls
        /\ st_message' = loaded.st_error
        /\ img_bgr' = loaded.value
        /\ UNCHANGED <<session_state, mask, result_bgr, pixel_count,
                       total_pixels, percentage, img_rgb, result_rgb, memo>>

\* the page after the first run of the script: nothing uploaded yet
Init ==
    /\ uploaded_file = None
    /\ session_state = SliderDefaults
    /\ trigger = "start"
    /\ calls = <<>>
    /\ st_message = "info"
    /\ img_bgr = None
    /\ mask = None
    /\ result_bgr = None
    /\ pixel_count = None
    /\ total_pixels = None
    /\ percentage = None
    /\ img_rgb = None
    /\ result_rgb = None
    /\ memo = None

Next == Upload(Files) \/ RemoveFile \/ SliderChange(SliderKeys)

Spec == Init /\ [][Next]_vars

NextIdem == Upload(IdemFiles) \/ RemoveFile \/ SliderChange(IdemKeys) \/ Capture

SpecIdem == Init /\ [][NextIdem]_vars

NextLoad == LoadFile

SpecLoad == Init /\ [][NextLoad]_vars

(***************************************************************************)
(* Properties.                                                             *)
(***************************************************************************)
ErrorMessages ==
    {"Gagal memuat citra", "Terjadi kesalahan saat memproses citra"}

Shown == st_message = "success"

Pixels == 1..Len(mask.px)

\* the HSV value of pixel i of the uploaded image
HsvOf(i) == BGR2HSV(uploaded_file.px[i])

InRangeOf(p, sl) ==
    /\ p[1] \in sl.h_min..sl.h_max
    /\ p[2] \in sl.s_min..sl.s_max
    /\ p[3] \in sl.v_min..sl.v_max

Count255 == Cardinality({i \in Pixels : mask.px[i] = 255})

Occurrences(name) == Cardinality({k \in 1..Len(calls) : calls[k] = name})

\* C1: the count segment_hsv returns is the number of mask elements equal to
\* 255, and the percentage is that count over width * height, times 100.
C1_CountIsNumberOf255 ==
    Shown =>
        /\ FracEq(pixel_count, Frac(Count255, 1))
        /\ FracEq(percentage, Frac(Count255 * 100, img_bgr.rows * img_bgr.cols))

\* C2: a mask element is 255 exactly when hue, saturation and value of its
\* pixel lie in their inclusive ranges, and 0 otherwise; a hue range given the
\* wrong way round selects nothing and raises no error.
C2_MaskIffInRange ==
    /\ uploaded_file.kind = "image" => Shown
    /\ Shown =>
        /\ Len(mask.px) = Len(uploaded_file.px)
        /\ \A i \in Pixels :
              mask.px[i] = IF InRangeOf(HsvOf(i), session_state) THEN 255 ELSE 0
        /\ session_state.h_min > session_state.h_max =>
              \A i \in Pixels : mask.px[i] = 0

C2_Witness ==
    /\ Shown
    /\ session_state.h_min > session_state.h_max
    /\ \E i \in Pixels :
          /\ HsvOf(i)[2] \in session_state.s_min..session_state.s_max
          /\ HsvOf(i)[3] \in session_state.v_min..session_state.v_max
          /\ mask.px[i] = 0

\* C3: the composite is black where the mask is 0 and the source pixel where
\* the mask is 255, and has the size of the source image and of the mask.
C3_Composite ==
    Shown =>
        /\ result_bgr.rows = uploaded_file.rows /\ result_bgr.rows = mask.rows
        /\ result_bgr.cols = uploaded_file.cols /\ result_bgr.cols = mask.cols
        /\ Len(result_bgr.px) = Len(mask.px)
        /\ \A i \in Pixels :
              /\ mask.px[i] = 0 => result_bgr.px[i] = <<0, 0, 0>>
              /\ mask.px[i] = 255 => result_bgr.px[i] = uploaded_file.px[i]

C3_Witness ==
    /\ Shown
    /\ \E i, j \in Pixels :
          /\ mask.px[i] = 0 /\ result_bgr.px[i] = <<0, 0, 0>>
          /\ mask.px[j] = 255 /\ result_bgr.px[j] = uploaded_file.px[j]

Loaded == trigger = "load" /\ uploaded_file.kind = "image"

TooBig == Max2(uploaded_file.rows, uploaded_file.cols) > ResizeBound

Nearest(n, side, larger) ==
    /\ 2 * (n * larger - side * ResizeBound) <= larger
    /\ 2 * (side * ResizeBound - n * larger) <= larger

\* n is the scaled side cut to a whole number: n <= side * 800 / larger, and
\* less than 1 below it unless the scaled side is itself whole
Truncated(n, side, larger) ==
    /\ n * larger <= side * ResizeBound
    /\ side * ResizeBound <= (n + 1) * larger
    /\ (side * ResizeBound) % larger # 0 => side * ResizeBound < (n + 1) * larger

\* C5 as stated: each side of the resized image is the nearest integer to the
\* scaled side.
C5_RoundedDims ==
    (Loaded /\ TooBig /\ img_bgr # None) =>
        /\ Nearest(img_bgr.cols, uploaded_file.cols,
                   Max2(uploaded_file.rows, uploaded_file.cols))
        /\ Nearest(img_bgr.rows, uploaded_file.rows,
                   Max2(uploaded_file.rows, uploaded_file.cols))

\* C5 as amended: each side of the resized image is the scaled side cut to a
\* whole number, and no image is returned exactly when the smaller side is cut
\* to 0.
C5_TruncatedDims ==
    (Loaded /\ TooBig) =>
        /\ img_bgr # None =>
              /\ Truncated(img_bgr.cols, uploaded_file.cols,
                           Max2(uploaded_file.rows, uploaded_file.cols))
              /\ Truncated(img_bgr.rows, uploaded_file.rows,
                           Max2(uploaded_file.rows, uploaded_file.cols))
        /\ img_bgr = None <=>
              Min2(uploaded_file.rows, uploaded_file.cols) * ResizeBound
                  < Max2(uploaded_file.rows, uploaded_file.cols)

C5_Witness ==
    /\ Loaded
    /\ uploaded_file.rows = 2 /\ uploaded_file.cols = ResizeBound + 1
    /\ img_bgr # None
    /\ img_bgr.rows = 1 /\ img_bgr.cols = ResizeBound

Wider(a, b) ==
    /\ a.h_min <= b.h_min /\ a.h_max >= b.h_max
    /\ a.s_min <= b.s_min /\ a.s_max >= b.s_max
    /\ a.v_min <= b.v_min /\ a.v_max >= b.v_max

\* C6: a slider change that widens the range of a fixed image never lowers
\* the count returned, and every pixel selected before stays selected.
C6_WideningKeeps ==
    [][(Shown /\ trigger' = "slider" /\ Wider(session_state', session_state)) =>
          /\ FracLeq(pixel_count, pixel_count')
          /\ \A i \in Pixels : mask.px[i] = 255 => mask'.px[i] = 255]_vars

C6_Witness ==
    /\ Shown
    /\ trigger = "slider"
    /\ session_state = [SliderDefaults EXCEPT !.h_min = 10]
    /\ \E i, j \in Pixels :
          /\ HsvOf(i)[1] < SliderDefaults.h_min /\ mask.px[i] = 255
          /\ HsvOf(j)[1] >= SliderDefaults.h_min /\ mask.px[j] = 255

\* C7: when the upload does not decode, load_color_image yields an error and
\* no image, nothing after it runs, and only a new upload can follow.
C7_DecodeFailureAborts ==
    (uploaded_file # None /\ uploaded_file.kind # "image") =>
        /\ st_message \in ErrorMessages
        /\ img_bgr = None /\ img_rgb = None
        /\ mask = None /\ result_bgr = None /\ result_rgb = None
        /\ pixel_count = None /\ total_pixels = None /\ percentage = None
        /\ Occurrences("segment_hsv") = 0
        /\ Occurrences("cvtColor") = 0
        /\ Occurrences("metrics") = 0
        /\ ~ ENABLED SliderChange(SliderKeys)
        /\ ENABLED Upload(Files)

C7_Witness ==
    /\ trigger = "upload"
    /\ uploaded_file = [kind |-> "corrupt"]
    /\ st_message = "Gagal memuat citra"
    /\ calls = <<"read", "imdecode">>

\* C8 as stated: a run caused by a slider change does not decode again.
C8_DecodeOncePerImage ==
    trigger = "slider" =>
        /\ Occurrences("imdecode") = 0
        /\ Occurrences("segment_hsv") = 1
        /\ Occurrences("metrics") = 1

\* C8 as amended: a run caused by a slider change runs the whole script: it
\* reads and decodes the upload again, once, and then segments, composites,
\* converts and computes the metrics, once each.
C8_EveryChangeRerunsAll ==
    trigger = "slider" =>
        /\ Shown
        /\ Occurrences("read") = 1
        /\ Occurrences("imdecode") = 1
        /\ Occurrences("segment_hsv") = 1
        /\ Occurrences("cvtColor") = 2
        /\ Occurrences("metrics") = 1
        /\ mask # None /\ result_bgr # None /\ pixel_count # None
        /\ percentage # None

C8_Witness ==
    /\ trigger = "slider"
    /\ session_state # SliderDefaults
    /\ calls = <<"read", "imdecode", "segment_hsv", "cvtColor", "cvtColor",
                 "metrics">>

C10_ValidImagesAccepted ==
    (Loaded /\ uploaded_file.rows >= 1 /\ uploaded_file.cols >= 1) =>
        /\ img_bgr # None
        /\ img_bgr.rows >= 1 /\ img_bgr.cols >= 1
        /\ st_message \notin ErrorMessages

=============================================================================
